---------------------------- MODULE Spec2Model ----------------------------
(***************************************************************************)
(* A model of github-stats-rs:                                             *)
(*   - src/search/query.rs : the search-query builder `Query` and its      *)
(*     `Display` rendering;                                                *)
(*   - src/repository.rs   : the aggregation `Repo::new`.                  *)
(* Strings are TLA+ strings, `\o` is concatenation (format!, join).        *)
(***************************************************************************)
EXTENDS Naturals, Integers, Sequences, FiniteSets, TLC

VARIABLES
    query,      \* the Query value: [repo, is, type, state : Seq(STRING)]
    calls,      \* log of the constructor/builder calls made on `query`
    out,        \* result of the latest `to_string()`, NoOutput before
    outAt,      \* Len(calls) when `out` was rendered
    args,       \* Repo::new's arguments [user, repo]
    pc,         \* the statement of Repo::new that runs next
    repo_data,  \* the decoded base response (a map from keys to JSON values)
    locals,     \* the `let` bindings of Repo::new made so far
    log,        \* the HTTP requests issued so far, with their responses
    result      \* what Repo::new returned, Running before it returns

qvars == <<query, calls, out, outAt>>
rvars == <<args, pc, repo_data, locals, log, result>>
vars == <<query, calls, out, outAt, args, pc, repo_data, locals, log, result>>

(***************************************************************************)
(* Bounds and input sets of the Query model.                               *)
(***************************************************************************)
MaxCalls == 3

Users == {"rust-lang"}
RepoNames == {"rust", "cargo"}
Statements == {"pr", "merged"}
FullNames == {"rust-lang/rust"}

NoOutput == [rendered |-> FALSE]

(***************************************************************************)
(* src/search/query.rs                                                     *)
(***************************************************************************)
\* #[derive(Default)] struct Query: four empty Vec<String>
Query_default == [repo |-> <<>>, is |-> <<>>, type |-> <<>>, state |-> <<>>]

\* Query::new
Query_new == Query_default

\* Query::from_repo, `full_name` being repo.full_name()
Query_from_repo(full_name) == [Query_default EXCEPT !.repo = <<full_name>>]

\* Query::repo: self.repo.push(format!("{}/{}", user, repo))
Query_repo(self, user, repo) ==
    [self EXCEPT !.repo = Append(self.repo, user \o "/" \o repo)]

\* a builder that skips a statement it already holds
Query_is_dedup(self, statement) ==
    IF \E i \in 1..Len(self.is) : self.is[i] = statement THEN self
    ELSE [self EXCEPT !.is = Append(self.is, statement)]

\* Query::is: self.is.push(String::from(statement))
Query_is(self, statement) ==
    [self EXCEPT !.is = Append(self.is, statement)]

\* a builder that pushes the type statement onto `state`
Query_type_state(self, statement) ==
    [self EXCEPT !.state = Append(self.state, statement)]

\* Query::r#type: self.r#type.push(String::from(statement))
Query_type(self, statement) ==
    [self EXCEPT !.type = Append(self.type, statement)]

\* iter().map(|s| format!("<prefix>:{}", s)).collect()
map_prefix(prefix, v) == [i \in 1..Len(v) |-> prefix \o ":" \o v[i]]

\* a rendering that appends the categories in the order repo, type, is, state
fmt_queries_call_order(self) ==
    ((map_prefix("repo", self.repo) \o map_prefix("type", self.type))
        \o map_prefix("is", self.is)) \o map_prefix("state", self.state)

\* the Vec `queries` of Display::fmt: repo, is, type, state appended in turn
fmt_queries(self) ==
    LET repo == map_prefix("repo", self.repo)
        is == map_prefix("is", self.is)
        type == map_prefix("type", self.type)
        state == map_prefix("state", self.state)
    IN  ((repo \o is) \o type) \o state

\* [String]::join(sep)
RECURSIVE join(_, _)
join(v, sep) ==
    IF Len(v) = 0 THEN ""
    ELSE IF Len(v) = 1 THEN v[1]
    ELSE v[1] \o sep \o join(Tail(v), sep)

\* impl fmt::Display for Query: write!(f, "q={}", queries.join("+"))
Query_fmt(self) == "q=" \o join(fmt_queries(self), "+")

(***************************************************************************)
(* The Query state machine: one builder value, constructed by new or       *)
(* from_repo, extended by the fluent calls, rendered by to_string.         *)
(***************************************************************************)
Call(op, a, b) == [op |-> op, a |-> a, b |-> b]

\* Repo::new not yet called
Idle == [ok |-> FALSE, err |-> [kind |-> "idle", what |-> "", text |-> ""]]

QInit ==
    /\ \/ /\ query = Query_new
          /\ calls = <<>>
       \/ \E f \in FullNames :
            /\ query = Query_from_repo(f)
            /\ calls = <<Call("from_repo", f, "")>>
    /\ out = NoOutput
    /\ outAt = 0
    /\ args = [user |-> "", repo |-> ""]
    /\ pc = "idle"
    /\ repo_data = <<>>
    /\ locals = <<>>
    /\ log = <<>>
    /\ result = Idle

CanCall == Len(calls) < MaxCalls

DoRepo ==
    /\ CanCall
    /\ \E u \in Users, r \in RepoNames :
        /\ query' = Query_repo(query, u, r)
        /\ calls' = Append(calls, Call("repo", u, r))
    /\ UNCHANGED <<out, outAt>>
    /\ UNCHANGED rvars

DoIs ==
    /\ CanCall
    /\ \E s \in Statements :
        /\ query' = Query_is(query, s)
        /\ calls' = Append(calls, Call("is", s, ""))
    /\ UNCHANGED <<out, outAt>>
    /\ UNCHANGED rvars

DoType ==
    /\ CanCall
    /\ \E s \in Statements :
        /\ query' = Query_type(query, s)
        /\ calls' = Append(calls, Call("type", s, ""))
    /\ UNCHANGED <<out, outAt>>
    /\ UNCHANGED rvars

\* to_string() takes &self: the builder is left as it is
DoToString ==
    /\ out' = [rendered |-> TRUE, text |-> Query_fmt(query),
               terms |-> Len(fmt_queries(query))]
    /\ outAt' = Len(calls)
    /\ UNCHANGED <<query, calls>>
    /\ UNCHANGED rvars

(***************************************************************************)
(* src/repository.rs                                                       *)
(***************************************************************************)
\* Bounds of the Repo model
MaxBadFields == 2     \* base-response keys that are absent, null or mistyped
MaxListing == 2       \* entries of the issue listing

\* Option<T>
None == [some |-> FALSE]
Some(x) == [some |-> TRUE, val |-> x]

\* Result<T>
Ok(x) == [ok |-> TRUE, val |-> x]
Err(e) == [ok |-> FALSE, err |-> e]

\* The value before Repo::new has returned
Running == [ok |-> FALSE, err |-> [kind |-> "running", what |-> "", text |-> ""]]

\* serde_json::Value
JNull == [kind |-> "null", s |-> "", n |-> 0, b |-> FALSE]
JStr(s) == [kind |-> "string", s |-> s, n |-> 0, b |-> FALSE]
JNum(n) == [kind |-> "number", s |-> "", n |-> n, b |-> FALSE]
JBool(b) == [kind |-> "bool", s |-> "", n |-> 0, b |-> b]

\* a conversion that falls back to 0 (unwrap_or_default) instead of failing
as_u64_or_zero(v) == IF v.kind = "number" /\ v.n >= 0 THEN Some(v.n) ELSE Some(0)

\* Value::as_str, as_f64, as_u64, as_bool
as_str(v) == IF v.kind = "string" THEN Some(v.s) ELSE None
as_f64(v) == IF v.kind = "number" THEN Some(v.n) ELSE None
as_bool(v) == IF v.kind = "bool" THEN Some(v.b) ELSE None
as_u64(v) == IF v.kind = "number" /\ v.n >= 0 THEN Some(v.n) ELSE None

\* Option::ok_or
ok_or(o, e) == IF o.some THEN Ok(o.val) ELSE Err(e)

\* repo_data["key"]: a key the response lacks reads as null
Index(data, key) == IF key \in DOMAIN data THEN data[key] ELSE JNull

\* The error made from a message literal r#""<what>" <text>"#
StrErr(what, text) == [kind |-> "message", what |-> what, text |-> text]

\* The error of a failed request (transport or decoding)
FetchErr(endpoint, status) == [kind |-> "fetch", what |-> endpoint, text |-> status]

GITHUB_API_REPO_URL == "https://api.github.com/repos"

\* repo_api_url
repo_api_url(user, repo) == GITHUB_API_REPO_URL \o "/" \o user \o "/" \o repo

\* An HTTP response as the client sees it
Response(status, body) == [status |-> status, body |-> body]

Failed(resp) == resp.status \in {"transport_error", "decode_error"}

\* repo_stats: reqwest::get(url)?.json()?
repo_stats(resp) ==
    IF Failed(resp) THEN Err(FetchErr("base", resp.status)) ELSE Ok(resp.body)

\* languages::from_api_url: one GET, decoded into the language map
languages_from_api_url(resp) ==
    IF Failed(resp) THEN Err(FetchErr("languages", resp.status)) ELSE Ok(resp.body)

\* the number of listing entries in the given state, pull requests or not
RECURSIVE CountEntries(_, _, _)
CountEntries(listing, state, is_pr) ==
    IF listing = <<>> THEN 0
    ELSE (IF listing[1].state = state /\ listing[1].pull_request = is_pr
          THEN 1 ELSE 0) + CountEntries(Tail(listing), state, is_pr)

\* issues::issue_stats: one GET, the listing's entries counted four ways
issue_stats(resp) ==
    IF Failed(resp) THEN Err(FetchErr("issues", resp.status))
    ELSE Ok(<<CountEntries(resp.body, "open", FALSE),
              CountEntries(resp.body, "closed", FALSE),
              CountEntries(resp.body, "open", TRUE),
              CountEntries(resp.body, "closed", TRUE)>>)

\* Release::latest: one GET, "not found" is the absent release
Release_latest(resp) ==
    IF Failed(resp) THEN Err(FetchErr("release", resp.status))
    ELSE IF resp.status = "not_found" THEN Ok(None)
    ELSE Ok(Some(resp.body))

\* a match without the Some("") arm
homepage_match_keep_empty(o) == IF ~o.some THEN None ELSE Some(o.val)

\* match repo_data["homepage"].as_str() { None | Some("") => None, Some(s) => Some(s) }
homepage_match(o) == IF ~o.some \/ o.val = "" THEN None ELSE Some(o.val)

\* Repo { name, created, ..., is_fork }
Repo_struct(l) ==
    [name |-> l.name,
     created |-> l.created,
     updated |-> l.updated,
     primary_language |-> l.primary_language,
     languages |-> l.languages,
     homepage |-> l.homepage,
     size |-> l.size,
     stars |-> l.stars,
     forks |-> l.forks,
     open_issues |-> l.open_issues,
     closed_issues |-> l.closed_issues,
     open_pull_requests |-> l.open_pull_requests,
     closed_pull_requests |-> l.closed_pull_requests,
     latest_release |-> l.latest_release,
     is_fork |-> l.is_fork]

(***************************************************************************)
(* What the platform may answer.                                           *)
(***************************************************************************)
RequiredKeys ==
    {"name", "created_at", "updated_at", "language", "languages_url",
     "size", "stargazers_count", "forks", "fork"}

LanguagesUrl == "https://api.github.com/repos/rust-lang/rust/languages"

GoodValue(key) ==
    CASE key = "name" -> JStr("rust")
      [] key = "created_at" -> JStr("2010-06-16T20:39:03Z")
      [] key = "updated_at" -> JStr("2019-05-01T10:00:00Z")
      [] key = "language" -> JStr("Rust")
      [] key = "languages_url" -> JStr(LanguagesUrl)
      [] key = "size" -> JNum(1024)
      [] key = "stargazers_count" -> JNum(42)
      [] key = "forks" -> JNum(7)
      [] key = "fork" -> JBool(FALSE)

\* a value of a kind the key's conversion rejects
MistypedValue(key) ==
    CASE key \in {"name", "created_at", "updated_at", "language", "languages_url"}
           -> JNum(5)
      [] key = "size" -> JStr("1024")
      [] key \in {"stargazers_count", "forks"} -> JNum(-1)
      [] key = "fork" -> JStr("false")

BadKinds == {"absent", "null", "mistyped"}

HomepageChoices ==
    {"absent", "null", "empty", "url", "mistyped"}

HomepageValue(h) ==
    CASE h = "null" -> JNull
      [] h = "empty" -> JStr("")
      [] h = "url" -> JStr("https://www.rust-lang.org")
      [] h = "mistyped" -> JNum(5)

\* the JSON object in which the keys of DOMAIN bad are bad as `bad` says
BaseObject(bad, h) ==
    LET keys == {k \in RequiredKeys : k \notin DOMAIN bad \/ bad[k] # "absent"}
                  \cup (IF h = "absent" THEN {} ELSE {"homepage"})
    IN  [k \in keys |->
            IF k = "homepage" THEN HomepageValue(h)
            ELSE IF k \notin DOMAIN bad THEN GoodValue(k)
            ELSE IF bad[k] = "null" THEN JNull
            ELSE MistypedValue(k)]

BaseObjects ==
    UNION { { BaseObject(bad, h) : bad \in [B -> BadKinds], h \in HomepageChoices } :
            B \in {S \in SUBSET RequiredKeys : Cardinality(S) <= MaxBadFields} }

FailedResponses ==
    {Response("transport_error", <<>>), Response("decode_error", <<>>)}

BaseResponses == FailedResponses \cup {Response("ok", o) : o \in BaseObjects}

LanguageMaps == {<<>>, [Rust |-> 900, C |-> 100]}

LanguagesResponses == FailedResponses \cup {Response("ok", m) : m \in LanguageMaps}

Entries == [state : {"open", "closed"}, pull_request : BOOLEAN]

Listings == UNION {[1..n -> Entries] : n \in 0..MaxListing}

IssuesResponses == FailedResponses \cup {Response("ok", l) : l \in Listings}

Releases == {[tag_name |-> "1.34.1", name |-> "Rust 1.34.1"]}

ReleaseResponses ==
    FailedResponses \cup {Response("not_found", <<>>)}
        \cup {Response("ok", r) : r \in Releases}

(***************************************************************************)
(* Repo::new, one action per statement.                                    *)
(***************************************************************************)
Req(endpoint, url, resp) == [endpoint |-> endpoint, url |-> url, resp |-> resp]

RInit ==
    /\ args \in [user : Users, repo : RepoNames]
    /\ pc = "repo_stats"
    /\ repo_data = <<>>
    /\ locals = <<>>
    /\ log = <<>>
    /\ result = Running
    /\ query = Query_new
    /\ calls = <<>>
    /\ out = NoOutput
    /\ outAt = 0

\* `let k = v;` and on to the next statement
Bind(k, v, next) ==
    /\ locals' = locals @@ (k :> v)
    /\ pc' = next
    /\ UNCHANGED result

\* `return Err(e)`
Return(e) ==
    /\ pc' = "done"
    /\ result' = Err(e)
    /\ UNCHANGED locals

\* a `?` that records the error and runs on
Try_keep_going(r, k, next) ==
    IF r.ok THEN Bind(k, r.val, next)
    ELSE /\ result' = Err(r.err)
         /\ pc' = next
         /\ UNCHANGED locals

\* `let k = r?;`
Try(r, k, next) == IF r.ok THEN Bind(k, r.val, next) ELSE Return(r.err)

\* let repo_data = repo_stats(user, repo)?;
Step_repo_stats ==
    /\ pc = "repo_stats"
    /\ \E resp \in BaseResponses :
        LET r == repo_stats(resp) IN
        /\ log' = Append(log, Req("base", repo_api_url(args.user, args.repo), resp))
        /\ IF r.ok
           THEN /\ repo_data' = r.val
                /\ pc' = "name"
                /\ UNCHANGED <<locals, result>>
           ELSE /\ Return(r.err)
                /\ UNCHANGED repo_data
    /\ UNCHANGED args
    /\ UNCHANGED qvars

Step_name ==
    /\ pc = "name"
    /\ Try(ok_or(as_str(Index(repo_data, "name")),
                 StrErr("name", "is not a string")),
           "name", "created_at")
    /\ UNCHANGED <<args, repo_data, log>>
    /\ UNCHANGED qvars

Step_created ==
    /\ pc = "created_at"
    /\ Try(ok_or(as_str(Index(repo_data, "created_at")),
                 StrErr("name", "is not a string")),
           "created", "updated_at")
    /\ UNCHANGED <<args, repo_data, log>>
    /\ UNCHANGED qvars

Step_updated ==
    /\ pc = "updated_at"
    /\ Try(ok_or(as_str(Index(repo_data, "updated_at")),
                 StrErr("name", "is not a string")),
           "updated", "language")
    /\ UNCHANGED <<args, repo_data, log>>
    /\ UNCHANGED qvars

Step_primary_language ==
    /\ pc = "language"
    /\ Try(ok_or(as_str(Index(repo_data, "language")),
                 StrErr("language", "is not a string")),
           "primary_language", "languages")
    /\ UNCHANGED <<args, repo_data, log>>
    /\ UNCHANGED qvars

\* let languages = languages::from_api_url(repo_data["languages_url"].as_str().ok_or(..)?)?;
Step_languages ==
    /\ pc = "languages"
    /\ LET url == ok_or(as_str(Index(repo_data, "languages_url")),
                        StrErr("languages_url", "is not a string"))
       IN  IF ~url.ok
           THEN Return(url.err) /\ UNCHANGED log
           ELSE \E resp \in LanguagesResponses :
                  /\ log' = Append(log, Req("languages", url.val, resp))
                  /\ Try(languages_from_api_url(resp), "languages", "homepage")
    /\ UNCHANGED <<args, repo_data>>
    /\ UNCHANGED qvars

Step_homepage ==
    /\ pc = "homepage"
    /\ Bind("homepage", homepage_match(as_str(Index(repo_data, "homepage"))), "size")
    /\ UNCHANGED <<args, repo_data, log>>
    /\ UNCHANGED qvars

\* size read with unwrap_or(0.0) instead of ok_or(..)?
Step_size_lenient ==
    /\ pc = "size"
    /\ LET o == as_f64(Index(repo_data, "size"))
       IN  Bind("size", IF o.some THEN o.val ELSE 0, "stargazers_count")
    /\ UNCHANGED <<args, repo_data, log>>
    /\ UNCHANGED qvars

Step_size ==
    /\ pc = "size"
    /\ Try(ok_or(as_f64(Index(repo_data, "size")),
                 StrErr("size", "cannot be read as f64")),
           "size", "stargazers_count")
    /\ UNCHANGED <<args, repo_data, log>>
    /\ UNCHANGED qvars

Step_stars ==
    /\ pc = "stargazers_count"
    /\ Try(ok_or(as_u64(Index(repo_data, "stargazers_count")),
                 StrErr("stars", "cannot be read as u64")),
           "stars", "forks")
    /\ UNCHANGED <<args, repo_data, log>>
    /\ UNCHANGED qvars

Step_forks ==
    /\ pc = "forks"
    /\ Try(ok_or(as_u64(Index(repo_data, "forks")),
                 StrErr("forks_count", "cannot be read as u64")),
           "forks", "issue_stats")
    /\ UNCHANGED <<args, repo_data, log>>
    /\ UNCHANGED qvars

\* the tuple taken apart with closed issues and open pull requests swapped
BindCounts_swapped(t) ==
    /\ locals' = locals @@ [open_issues |-> t[1], closed_issues |-> t[3],
                            open_pull_requests |-> t[2],
                            closed_pull_requests |-> t[4]]
    /\ pc' = "fork"
    /\ UNCHANGED result

\* let (open_issues, closed_issues, open_pull_requests, closed_pull_requests) = t
BindCounts(t) ==
    /\ locals' = locals @@ [open_issues |-> t[1], closed_issues |-> t[2],
                            open_pull_requests |-> t[3],
                            closed_pull_requests |-> t[4]]
    /\ pc' = "fork"
    /\ UNCHANGED result

\* let (...) = issue_stats(user, repo)?;
Step_issue_stats ==
    /\ pc = "issue_stats"
    /\ \E resp \in IssuesResponses :
        LET r == issue_stats(resp) IN
        /\ log' = Append(log, Req("issues",
                    repo_api_url(args.user, args.repo) \o "/issues", resp))
        /\ IF r.ok THEN BindCounts(r.val) ELSE Return(r.err)
    /\ UNCHANGED <<args, repo_data>>
    /\ UNCHANGED qvars

Step_is_fork ==
    /\ pc = "fork"
    /\ Try(ok_or(as_bool(Index(repo_data, "fork")),
                 StrErr("fork", "could not be read as bool")),
           "is_fork", "latest_release")
    /\ UNCHANGED <<args, repo_data, log>>
    /\ UNCHANGED qvars

\* a release step that insists on a release (.ok_or("no release")?)
Step_latest_release_required ==
    /\ pc = "latest_release"
    /\ \E resp \in ReleaseResponses :
        LET r == Release_latest(resp) IN
        /\ log' = Append(log, Req("release",
                    repo_api_url(args.user, args.repo) \o "/releases/latest", resp))
        /\ IF r.ok /\ ~r.val.some
           THEN Return(StrErr("release", "not found"))
           ELSE Try(r, "latest_release", "assemble")
    /\ UNCHANGED <<args, repo_data>>
    /\ UNCHANGED qvars

\* let latest_release = Release::latest(user, repo)?;
Step_latest_release ==
    /\ pc = "latest_release"
    /\ \E resp \in ReleaseResponses :
        /\ log' = Append(log, Req("release",
                    repo_api_url(args.user, args.repo) \o "/releases/latest", resp))
        /\ Try(Release_latest(resp), "latest_release", "assemble")
    /\ UNCHANGED <<args, repo_data>>
    /\ UNCHANGED qvars

\* let repo = Repo { .. }; Ok(repo)
Step_assemble ==
    /\ pc = "assemble"
    /\ result' = Ok(Repo_struct(locals))
    /\ pc' = "done"
    /\ UNCHANGED <<args, repo_data, locals, log>>
    /\ UNCHANGED qvars

RNext ==
    \/ Step_repo_stats
    \/ Step_name
    \/ Step_created
    \/ Step_updated
    \/ Step_primary_language
    \/ Step_languages
    \/ Step_homepage
    \/ Step_size
    \/ Step_stars
    \/ Step_forks
    \/ Step_issue_stats
    \/ Step_is_fork
    \/ Step_latest_release
    \/ Step_assemble

QNext == DoRepo \/ DoIs \/ DoType \/ DoToString

\* The query builder on its own
QuerySpec == QInit /\ [][QNext]_vars

\* One run of Repo::new
RepoSpec == RInit /\ [][RNext]_vars

(***************************************************************************)
(* Claims about the query builder (checked under QuerySpec).               *)
(***************************************************************************)
\* the category a call adds to
CategoryOf(c) == IF c.op = "from_repo" THEN "repo" ELSE c.op

\* the term a call passes to its category
PassedTerm(c) == IF c.op = "repo" THEN c.a \o "/" \o c.b ELSE c.a

\* the terms passed to category `cat` by the calls `cs`, in call order
PassedTo(cs, cat) ==
    LET InCat(c) == CategoryOf(c) = cat
        sel == SelectSeq(cs, InCat)
    IN  [i \in 1..Len(sel) |-> PassedTerm(sel[i])]

\* `<cat>:<term>` for each term passed to `cat`
SpecTerms(cs, cat) ==
    LET ts == PassedTo(cs, cat) IN [i \in 1..Len(ts) |-> cat \o ":" \o ts[i]]

\* the terms in the category order repo, is, type, state
SpecAllTerms(cs) ==
    SpecTerms(cs, "repo") \o SpecTerms(cs, "is")
        \o SpecTerms(cs, "type") \o SpecTerms(cs, "state")

\* t1+t2+...+tn, no separator before the first or after the last
RECURSIVE PlusSeparated(_)
PlusSeparated(ts) ==
    IF ts = <<>> THEN ""
    ELSE IF Len(ts) = 1 THEN ts[1]
    ELSE PlusSeparated(SubSeq(ts, 1, Len(ts) - 1)) \o "+" \o ts[Len(ts)]

\* the calls the latest rendering saw
RenderedCalls == SubSeq(calls, 1, outAt)

\* C1: rendering yields "q=" followed by the terms as repo:<owner>/<name>,
\* is:<term>, type:<term>, state:<term>, grouped in the category order repo,
\* is, type, state whatever the call order, joined by "+"; with no terms the
\* output is exactly "q=".
C1_RenderFormat ==
    out.rendered =>
        /\ out.text = "q=" \o PlusSeparated(SpecAllTerms(RenderedCalls))
        /\ (RenderedCalls = <<>> => out.text = "q=")

\* the repository's own test: repo, then type, then is
C1_Witness ==
    /\ out.rendered
    /\ Len(calls) = 3 /\ outAt = 3
    /\ calls[1].op = "repo" /\ calls[2].op = "type" /\ calls[3].op = "is"
    /\ out.text = "q=repo:rust-lang/rust+is:merged+type:pr"

C2_Holds ==
    /\ query.repo = PassedTo(calls, "repo")
    /\ query.is = PassedTo(calls, "is")
    /\ query.type = PassedTo(calls, "type")
    /\ out.rendered /\ (\A i \in 1..outAt : calls[i].op = "is") =>
         out.text = "q=" \o PlusSeparated(
                      [i \in 1..outAt |-> "is:" \o calls[i].a])

C2_Step ==
    calls' # calls =>
        LET c == calls'[Len(calls')]
            cat == CategoryOf(c)
        IN  /\ calls' = Append(calls, c)
            /\ query'[cat] = Append(query[cat], PassedTerm(c))
            /\ \A other \in DOMAIN query \ {cat} : query'[other] = query[other]

\* C2: each category's sequence holds exactly the terms passed to that
\* category's operation, in call order; every call appends one term to its own
\* category and leaves the other three unchanged; nothing is removed or
\* deduplicated, and a term added twice is rendered twice, in insertion order.
C2_AppendOnly == [](C2_Holds) /\ [][C2_Step]_vars

\* the same `is` term added twice and rendered twice
C2_Witness ==
    /\ calls = <<Call("is", "pr", ""), Call("is", "merged", ""), Call("is", "pr", "")>>
    /\ query.is = <<"pr", "merged", "pr">>
    /\ out.rendered /\ outAt = 3
    /\ out.text = "q=is:pr+is:merged+is:pr"

\* the builder calls made (from_repo is a constructor)
BuilderCalls(cs) ==
    LET IsBuilder(c) == c.op \in {"repo", "is", "type"} IN SelectSeq(cs, IsBuilder)

FromRepoSeed(cs) == IF cs # <<>> /\ cs[1].op = "from_repo" THEN 1 ELSE 0

\* C10: no operation of Query adds to the `state` sequence: it is empty in
\* every reachable Query, rendering emits no term of the state category, and
\* the number of rendered terms is the number of repo/is/type calls made
\* (plus one for from_repo).
C10_StateNeverUsed ==
    /\ query.state = <<>>
    /\ map_prefix("state", query.state) = <<>>
    /\ Len(fmt_queries(query)) = Len(BuilderCalls(calls)) + FromRepoSeed(calls)
    /\ out.rendered =>
         out.terms = Len(BuilderCalls(RenderedCalls)) + FromRepoSeed(RenderedCalls)

\* a query seeded by from_repo, extended twice and rendered
C10_Witness ==
    /\ Len(calls) = 3 /\ calls[1].op = "from_repo"
    /\ calls[2].op = "type" /\ calls[3].op = "is"
    /\ out.rendered /\ outAt = 3 /\ out.terms = 3

(***************************************************************************)
(* Claims about Repo::new (checked under RepoSpec).                        *)
(***************************************************************************)
StringKeys == {"name", "created_at", "updated_at", "language", "languages_url"}

\* the response holds `key` with a value of the kind the Repo field needs
WellTyped(data, key) ==
    /\ key \in DOMAIN data
    /\ \/ key \in StringKeys /\ data[key].kind = "string"
       \/ key = "size" /\ data[key].kind = "number"
       \/ key \in {"stargazers_count", "forks"}
            /\ data[key].kind = "number" /\ data[key].n >= 0
       \/ key = "fork" /\ data[key].kind = "bool"

\* the required keys that are missing or mistyped
BadKeys(data) == {k \in RequiredKeys : ~WellTyped(data, k)}

Returned == pc = "done"

Requested(endpoint) == \E i \in 1..Len(log) : log[i].endpoint = endpoint

Answered(endpoint) ==
    \E i \in 1..Len(log) :
        /\ log[i].endpoint = endpoint
        /\ log[i].resp.status \in {"ok", "not_found"}

ResponseOf(endpoint) ==
    log[CHOOSE i \in 1..Len(log) : log[i].endpoint = endpoint].resp

AllSucceeded ==
    /\ Answered("base")
    /\ BadKeys(repo_data) = {}
    /\ Answered("languages")
    /\ Answered("issues")
    /\ Answered("release")

RepoFields ==
    {"name", "created", "updated", "primary_language", "languages", "homepage",
     "size", "stars", "forks", "open_issues", "closed_issues",
     "open_pull_requests", "closed_pull_requests", "latest_release", "is_fork"}

\* C3: Repo::new never returns a partial record: it returns a Repo only when
\* the base request, the extraction of every required field, the languages
\* fetch, the issue/PR counter and the release fetcher have all succeeded; if
\* any of them fails the result is an error and no Repo exists.
C3_NoPartialRecord ==
    /\ ~Returned => ~result.ok
    /\ Returned => (result.ok <=> AllSucceeded)
    /\ result.ok =>
        /\ DOMAIN result.val = RepoFields
        /\ result.val.name = repo_data["name"].s
        /\ result.val.created = repo_data["created_at"].s
        /\ result.val.updated = repo_data["updated_at"].s
        /\ result.val.primary_language = repo_data["language"].s
        /\ result.val.size = repo_data["size"].n
        /\ result.val.stars = repo_data["stargazers_count"].n
        /\ result.val.forks = repo_data["forks"].n
        /\ result.val.is_fork = repo_data["fork"].b
        /\ result.val.languages = ResponseOf("languages").body

\* the last extraction fails after two sub-fetches succeeded: still no Repo
C3_Witness ==
    /\ Returned /\ ~result.ok
    /\ BadKeys(repo_data) = {"fork"}
    /\ Answered("languages") /\ Answered("issues")

\* C4: when Repo::new fails because a required field is absent or mistyped,
\* the error names that very field: a response in which that field is the only
\* bad one produces an error identifying it, never another field's name.
C4_ErrorNamesField ==
    \A k \in RequiredKeys :
        (/\ Returned /\ ~result.ok
         /\ result.err.kind = "message"
         /\ BadKeys(repo_data) = {k}) => result.err.what = k

HomepageAbsent == "homepage" \notin DOMAIN repo_data \/ repo_data["homepage"] = JNull

HomepageEmpty == "homepage" \in DOMAIN repo_data /\ repo_data["homepage"] = JStr("")

HomepageText ==
    /\ "homepage" \in DOMAIN repo_data
    /\ repo_data["homepage"].kind = "string"
    /\ repo_data["homepage"].s # ""

\* C5 as stated: homepage absent or empty yields a Repo with homepage unset
\* and does not fail the aggregation, a non-empty string is stored unchanged,
\* and homepage is unset only in the absent/empty cases (a null homepage is
\* counted as absent here).
C5_UnsetOnlyIfAbsentOrEmpty ==
    /\ Returned /\ AllSucceeded => result.ok
    /\ result.ok /\ (HomepageAbsent \/ HomepageEmpty) => ~result.val.homepage.some
    /\ result.ok /\ HomepageText =>
         result.val.homepage = Some(repo_data["homepage"].s)
    /\ result.ok /\ ~result.val.homepage.some => HomepageAbsent \/ HomepageEmpty

\* C5 (amended): homepage is unset exactly when the response's homepage is
\* absent, null, the empty string or any other non-string value; none of
\* these fails the aggregation; a non-empty string is stored unchanged.
C5_HomepageDefaulted ==
    /\ Returned /\ AllSucceeded => result.ok
    /\ Returned /\ ~result.ok => result.err.what # "homepage"
    /\ result.ok /\ HomepageText =>
         result.val.homepage = Some(repo_data["homepage"].s)
    /\ result.ok /\ ~HomepageText => result.val.homepage = None

\* an empty homepage, and a Repo with homepage unset
C5_Witness ==
    /\ result.ok
    /\ HomepageEmpty
    /\ result.val.homepage = None

\* C6: when the latest-release endpoint reports no release, the fetcher's
\* result is the absent state, Repo::new succeeds and latest_release is
\* absent; when a release exists, latest_release is the fetched record.
C6_NoReleaseIsNotAnError ==
    Returned /\ Requested("release") =>
        LET resp == ResponseOf("release") IN
        /\ resp.status = "not_found" =>
             result.ok /\ result.val.latest_release = None
        /\ resp.status = "ok" =>
             result.ok /\ result.val.latest_release = Some(resp.body)

C6_Witness ==
    /\ Returned /\ Requested("release")
    /\ ResponseOf("release").status = "not_found"
    /\ result.ok /\ ~result.val.latest_release.some

\* the places of the listing's entries that are (not) pull requests / open
Places(listing, is_pr) ==
    {i \in 1..Len(listing) : listing[i].pull_request = is_pr}

PlacesIn(listing, is_pr, state) ==
    {i \in Places(listing, is_pr) : listing[i].state = state}

\* C7: the four counts partition the one issue listing: open + closed issues
\* is the number of entries without the pull-request marker, open + closed
\* pull requests the number with it, the four sum to the listing's length, and
\* the tuple is stored in the order (open issues, closed issues, open pull
\* requests, closed pull requests).
C7_CountsPartitionListing ==
    result.ok =>
        LET l == ResponseOf("issues").body
            r == result.val
        IN  /\ r.open_issues + r.closed_issues = Cardinality(Places(l, FALSE))
            /\ r.open_pull_requests + r.closed_pull_requests
                 = Cardinality(Places(l, TRUE))
            /\ r.open_issues + r.closed_issues + r.open_pull_requests
                 + r.closed_pull_requests = Len(l)
            /\ r.open_issues = Cardinality(PlacesIn(l, FALSE, "open"))
            /\ r.closed_issues = Cardinality(PlacesIn(l, FALSE, "closed"))
            /\ r.open_pull_requests = Cardinality(PlacesIn(l, TRUE, "open"))
            /\ r.closed_pull_requests = Cardinality(PlacesIn(l, TRUE, "closed"))

\* a closed issue and an open pull request in the listing
C7_Witness ==
    /\ result.ok
    /\ result.val.closed_issues = 1 /\ result.val.open_pull_requests = 1
    /\ Len(ResponseOf("issues").body) = 2

ScalarKeys == RequiredKeys \ {"languages_url"}

ScalarLocals ==
    {"name", "created", "updated", "primary_language", "homepage", "size",
     "stars", "forks", "is_fork"}

\* C8 as stated: every required scalar field is extracted before the
\* languages request is issued, which comes before the counter and the release
\* fetcher; so in a run in which a required scalar field is missing or
\* mistyped no languages, issue-listing or latest-release request is issued.
C8_ScalarsBeforeFetches ==
    /\ Requested("languages") => ScalarLocals \subseteq DOMAIN locals
    /\ Requested("issues") \/ Requested("release") => Requested("languages")
    /\ Requested("base") /\ Answered("base")
         /\ BadKeys(repo_data) \cap ScalarKeys # {} =>
         ~(Requested("languages") \/ Requested("issues") \/ Requested("release"))

RequestOrder == <<"base", "languages", "issues", "release">>

BeforeLanguages == {"name", "created", "updated", "primary_language"}

BeforeIssues == BeforeLanguages \cup {"languages", "homepage", "size", "stars", "forks"}

BeforeRelease ==
    BeforeIssues \cup {"open_issues", "closed_issues", "open_pull_requests",
                       "closed_pull_requests", "is_fork"}

\* C8 (amended): the requests are issued in the order base, languages, issue
\* listing, latest release. name, created_at, updated_at, language and
\* languages_url are extracted before the languages request; homepage, size,
\* stargazers_count and forks after it and before the issue listing; fork
\* after the issue listing and before the release request. So a bad
\* name/created_at/updated_at/language/languages_url means no further request,
\* a bad size/stargazers_count/forks none after the languages request, and a
\* bad fork no release request.
C8_ActualOrder ==
    /\ Len(log) <= 4
    /\ \A i \in 1..Len(log) : log[i].endpoint = RequestOrder[i]
    /\ ~Requested("languages") => DOMAIN locals \subseteq BeforeLanguages
    /\ Requested("languages") /\ ~Requested("issues") =>
         /\ BeforeLanguages \subseteq DOMAIN locals
         /\ DOMAIN locals \subseteq BeforeIssues
    /\ Requested("issues") /\ ~Requested("release") =>
         /\ BeforeIssues \ {"languages"} \subseteq DOMAIN locals
         /\ DOMAIN locals \subseteq BeforeRelease
    /\ Requested("release") => BeforeRelease \subseteq DOMAIN locals
    /\ Requested("languages") => BadKeys(repo_data) \cap StringKeys = {}
    /\ Requested("issues") =>
         BadKeys(repo_data) \cap {"size", "stargazers_count", "forks"} = {}
    /\ Requested("release") => BadKeys(repo_data) = {}

\* size is bad, and the languages request was issued all the same
C8_Witness ==
    /\ Returned /\ ~result.ok
    /\ BadKeys(repo_data) = {"size"}
    /\ Requested("languages") /\ ~Requested("issues")
    /\ result.err.what = "size"

\* C9: the requests are issued one after another, each endpoint at most once;
\* the first failing request or extraction aborts the run at once, the error
\* returned is that failure, and no request is issued after it.
C9_FirstFailureAborts ==
    /\ \A i, j \in 1..Len(log) : log[i].endpoint = log[j].endpoint => i = j
    /\ \A i \in 1..Len(log) :
         log[i].resp.status \in {"transport_error", "decode_error"} =>
             /\ i = Len(log)
             /\ Returned
             /\ result = Err(FetchErr(log[i].endpoint, log[i].resp.status))
    /\ result # Running => Returned
    /\ Returned /\ ~result.ok /\ result.err.kind = "message" =>
         /\ \A i \in 1..Len(log) : log[i].resp.status \in {"ok", "not_found"}
         /\ BadKeys(repo_data) # {}
    /\ Returned /\ ~result.ok /\ result.err.kind = "fetch" =>
         log[Len(log)].resp.status \in {"transport_error", "decode_error"}

\* the issue listing fails: the run ends there, the release is never asked for
C9_Witness ==
    /\ Returned
    /\ Len(log) = 3
    /\ log[3].resp.status = "transport_error"
    /\ result = Err(FetchErr("issues", "transport_error"))

=============================================================================
